---- MODULE Spec2Model ----
(***************************************************************************)
(* A model of wrf/projection.py: the WrfProj class family, the getproj     *)
(* factory and the MercatorWithLatTS cartopy subclass.                     *)
(*                                                                         *)
(* One behaviour is one interpreter session: the module is imported under  *)
(* Python 2 or Python 3, one projection object is constructed (directly or *)
(* through getproj), and its accessors are then called any number of       *)
(* times.  Angles are whole degrees.  A Python value that may be None is   *)
(* an optional: <<>> is None and <<v>> is the number v, so that None and 0 *)
(* are different values, as they are in the code.                          *)
(*                                                                         *)
(* Not modelled: the DX/DY attributes (stored, never read), __repr__, and  *)
(* the letter case of the keyword names (dict_keys_to_upper, projutils.py):*)
(* the bag of the model already holds the upper-case names.                *)
(***************************************************************************)
EXTENDS Integers, Sequences, FiniteSets, TLC

VARIABLES
    py3,    \* the interpreter: TRUE for Python 3, FALSE for Python 2
    args,   \* the arguments of the construction call (<<>> before it)
    obj,    \* the object the call produced, or the exception it raised
    ret     \* the last accessor call on obj and its outcome

vars == <<py3, args, obj, ret>>

---------------------------------------------------------------------------
(* Python values *)

None == <<>>
Some(v) == <<v>>
IsNone(x) == x = None
Val(x) == x[1]

\* x == n for a possibly-None x and a number n: None equals no number.
PyEq(x, n) == ~IsNone(x) /\ Val(x) = n

\* The value a function returns when it returns None.
PyNone == [kind |-> "None"]

\* CoordPair(lat, lon) of wrf/coordpair.py: only .lat and .lon are read.
CoordPair(la, lo) == [lat |-> la, lon |-> lo]

---------------------------------------------------------------------------
(* Bounds and the inputs of a construction call *)

\* A construction call differs from one of the base calls below in at most
\* this many arguments.
MaxVaried == 2

\* A caller appends to a list that an accessor returned only while the list
\* is shorter than this.
MaxListLen == 3

\* ProjectionTypes (wrf/constants.py).
ZERO == 0
LAMBERT_CONFORMAL == 1
POLAR_STEREOGRAPHIC == 2
MERCATOR == 3
LAT_LON == 6

Ctors == {"getproj", "WrfProj", "LambertConformal", "Mercator",
          "PolarStereographic", "LatLon", "RotatedLatLon"}

BottomLeftVals == {None, Some(CoordPair(20, -120)), Some(CoordPair(-10, 170))}
TopRightVals == {None, Some(CoordPair(50, -60)), Some(CoordPair(10, -170))}
\* 2-D grids, row by row.
LatsVals == {None, Some(<< <<21, 22>>, <<51, 52>> >>)}
LonsVals == {None, Some(<< <<-119, -61>>, <<-118, -62>> >>)}

MapProjVals == {None, Some(ZERO), Some(LAMBERT_CONFORMAL),
                Some(POLAR_STEREOGRAPHIC), Some(MERCATOR), Some(4),
                Some(LAT_LON)}
TrueLat1Vals == {None, Some(-91), Some(-90), Some(-30), Some(0), Some(30),
                 Some(90), Some(91)}
TrueLat2Vals == {None, Some(-91), Some(-90), Some(0), Some(60), Some(90),
                 Some(91)}
MoadCenLatVals == {None, Some(-39), Some(0), Some(39)}
CenLatVals == {None, Some(-10), Some(10)}
StandLonVals == {None, Some(-106), Some(-98), Some(0)}
CenLonVals == {None, Some(20)}
PoleLatVals == {None, Some(36), Some(90)}
PoleLonVals == {None, Some(0), Some(90), Some(180)}

ArgNames == {"ctor", "bottom_left", "top_right", "lats", "lons",
             "MAP_PROJ", "TRUELAT1", "TRUELAT2", "MOAD_CEN_LAT", "CEN_LAT",
             "STAND_LON", "CEN_LON", "POLE_LAT", "POLE_LON"}

\* getproj on the global attributes of a Lambert-conformal WRF file.
LambertCall ==
    [ctor |-> "getproj",
     bottom_left |-> Some(CoordPair(20, -120)),
     top_right |-> Some(CoordPair(50, -60)),
     lats |-> None, lons |-> None,
     MAP_PROJ |-> Some(LAMBERT_CONFORMAL),
     TRUELAT1 |-> Some(30), TRUELAT2 |-> Some(60),
     MOAD_CEN_LAT |-> Some(39), CEN_LAT |-> Some(10),
     STAND_LON |-> Some(-98), CEN_LON |-> Some(20),
     POLE_LAT |-> Some(90), POLE_LON |-> Some(0)]

\* getproj with the keywords of a rotated-pole domain.
RotatedCall ==
    [ctor |-> "getproj",
     bottom_left |-> Some(CoordPair(20, -120)),
     top_right |-> Some(CoordPair(50, -60)),
     lats |-> None, lons |-> None,
     MAP_PROJ |-> Some(LAT_LON),
     TRUELAT1 |-> None, TRUELAT2 |-> None,
     MOAD_CEN_LAT |-> Some(39), CEN_LAT |-> None,
     STAND_LON |-> Some(-106), CEN_LON |-> None,
     POLE_LAT |-> Some(36), POLE_LON |-> Some(180)]

\* getproj with the corners and no projection keyword at all.
SparseCall ==
    [ctor |-> "getproj",
     bottom_left |-> Some(CoordPair(20, -120)),
     top_right |-> Some(CoordPair(50, -60)),
     lats |-> None, lons |-> None,
     MAP_PROJ |-> None,
     TRUELAT1 |-> None, TRUELAT2 |-> None,
     MOAD_CEN_LAT |-> None, CEN_LAT |-> None,
     STAND_LON |-> None, CEN_LON |-> None,
     POLE_LAT |-> None, POLE_LON |-> None]

BaseCalls == {LambertCall, RotatedCall, SparseCall}

Pick(S, name, vals, base) == IF name \in S THEN vals ELSE {base[name]}

\* The calls that differ from base in the arguments S only.
Varying(base, S) ==
    [ctor : Pick(S, "ctor", Ctors, base),
     bottom_left : Pick(S, "bottom_left", BottomLeftVals, base),
     top_right : Pick(S, "top_right", TopRightVals, base),
     lats : Pick(S, "lats", LatsVals, base),
     lons : Pick(S, "lons", LonsVals, base),
     MAP_PROJ : Pick(S, "MAP_PROJ", MapProjVals, base),
     TRUELAT1 : Pick(S, "TRUELAT1", TrueLat1Vals, base),
     TRUELAT2 : Pick(S, "TRUELAT2", TrueLat2Vals, base),
     MOAD_CEN_LAT : Pick(S, "MOAD_CEN_LAT", MoadCenLatVals, base),
     CEN_LAT : Pick(S, "CEN_LAT", CenLatVals, base),
     STAND_LON : Pick(S, "STAND_LON", StandLonVals, base),
     CEN_LON : Pick(S, "CEN_LON", CenLonVals, base),
     POLE_LAT : Pick(S, "POLE_LAT", PoleLatVals, base),
     POLE_LON : Pick(S, "POLE_LON", PoleLonVals, base)]

VariedSets == {S \in SUBSET ArgNames : Cardinality(S) <= MaxVaried}

Calls == UNION {Varying(base, S) : base \in BaseCalls, S \in VariedSets}

---------------------------------------------------------------------------
(* _ismissing and WrfProj.__init__ *)

_ismissing(val) == IsNone(val) \/ Val(val) > 90 \/ Val(val) < -90

Raised(c, e) == [state |-> "raised", cls |-> c, exc |-> e]

\* lats[0,0] and lats[-1,-1] of a 2-D array.
FirstElt(g) == g[1][1]
LastElt(g) == g[Len(g)][Len(g[Len(g)])]

\* Corners, were the two modes exclusive: both given is refused.
Corners_Exclusive(a) ==
    IF ~IsNone(a.bottom_left) /\ ~IsNone(a.top_right)
       /\ IsNone(a.lats) /\ IsNone(a.lons)
    THEN Some([ll_lat |-> Val(a.bottom_left).lat,
               ll_lon |-> Val(a.bottom_left).lon,
               ur_lat |-> Val(a.top_right).lat,
               ur_lon |-> Val(a.top_right).lon])
    ELSE IF ~IsNone(a.lats) /\ ~IsNone(a.lons)
            /\ IsNone(a.bottom_left) /\ IsNone(a.top_right)
    THEN Some([ll_lat |-> FirstElt(Val(a.lats)),
               ur_lat |-> LastElt(Val(a.lats)),
               ll_lon |-> FirstElt(Val(a.lons)),
               ur_lon |-> LastElt(Val(a.lons))])
    ELSE None

\* The corner attributes, or <<>> when __init__ raises ValueError.
Corners(a) ==
    IF ~IsNone(a.bottom_left) /\ ~IsNone(a.top_right)
    THEN Some([ll_lat |-> Val(a.bottom_left).lat,
               ll_lon |-> Val(a.bottom_left).lon,
               ur_lat |-> Val(a.top_right).lat,
               ur_lon |-> Val(a.top_right).lon])
    ELSE IF ~IsNone(a.lats) /\ ~IsNone(a.lons)
    THEN Some([ll_lat |-> FirstElt(Val(a.lats)),
               ur_lat |-> LastElt(Val(a.lats)),
               ll_lon |-> FirstElt(Val(a.lons)),
               ur_lon |-> LastElt(Val(a.lons))])
    ELSE None

\* StoredTruelat2 with a falsy test: a TRUELAT2 of 0 counts as missing.
StoredTruelat2_Falsy(a) ==
    IF ~_ismissing(a.TRUELAT2) /\ Val(a.TRUELAT2) # 0 THEN a.TRUELAT2 ELSE None

\* truelat2 as __init__ stores it.
StoredTruelat2(a) == IF ~_ismissing(a.TRUELAT2) THEN a.TRUELAT2 ELSE None

\* StoredMoadCenLat with a falsy test: a MOAD_CEN_LAT of 0 counts as unset.
StoredMoadCenLat_Falsy(a) ==
    IF IsNone(a.MOAD_CEN_LAT) \/ Val(a.MOAD_CEN_LAT) = 0
    THEN a.CEN_LAT ELSE a.MOAD_CEN_LAT

\* moad_cen_lat and stand_lon after the "just in case" fallbacks.
StoredMoadCenLat(a) ==
    IF IsNone(a.MOAD_CEN_LAT) THEN a.CEN_LAT ELSE a.MOAD_CEN_LAT
StoredStandLon(a) ==
    IF IsNone(a.STAND_LON) THEN a.CEN_LON ELSE a.STAND_LON

\* WrfProj.__init__ run on a new object of class c.
WrfProjInit(c, a) ==
    IF IsNone(Corners(a))
    THEN Raised(c, "ValueError")
    ELSE LET k == Val(Corners(a)) IN
         [state |-> "ok", cls |-> c,
          ll_lat |-> k.ll_lat, ll_lon |-> k.ll_lon,
          ur_lat |-> k.ur_lat, ur_lon |-> k.ur_lon,
          bottom_left |-> CoordPair(k.ll_lat, k.ll_lon),
          top_right |-> CoordPair(k.ur_lat, k.ur_lon),
          map_proj |-> a.MAP_PROJ,
          _cen_lat |-> a.CEN_LAT, _cen_lon |-> a.CEN_LON,
          truelat1 |-> a.TRUELAT1,
          truelat2 |-> StoredTruelat2(a),
          moad_cen_lat |-> StoredMoadCenLat(a),
          stand_lon |-> StoredStandLon(a),
          pole_lat |-> a.POLE_LAT, pole_lon |-> a.POLE_LON]

---------------------------------------------------------------------------
(* The subclasses' __init__ *)

LambertConformalInit(a) ==
    LET o == WrfProjInit("LambertConformal", a) IN
    IF o.state = "raised" THEN o
    ELSE o @@ [_std_parallels |->
                  IF ~IsNone(o.truelat2)
                  THEN <<o.truelat1, o.truelat2>>
                  ELSE <<o.truelat1>>]

\* MercatorLatTs without the test for 0.
MercatorLatTs_NoZero(truelat1) ==
    IF _ismissing(truelat1) THEN None ELSE truelat1

MercatorLatTs(truelat1) ==
    IF PyEq(truelat1, 0) \/ _ismissing(truelat1) THEN None ELSE truelat1

MercatorInit(a) ==
    LET o == WrfProjInit("Mercator", a) IN
    IF o.state = "raised" THEN o
    ELSE o @@ [_lat_ts |-> MercatorLatTs(o.truelat1)]

\* truelat1 < 0.  Python 2 orders None below every number; Python 3 raises
\* TypeError, which CanOrder excludes before PyLess is used.
CanOrder(x) == ~(IsNone(x) /\ py3)
PyLess(x, n) == IsNone(x) \/ Val(x) < n

\* PolarHemi with <= for <.
PolarHemi_ZeroSouth(truelat1) ==
    IF IsNone(truelat1) \/ Val(truelat1) <= 0 THEN Some(-90) ELSE Some(90)

PolarHemi(truelat1) == IF PyLess(truelat1, 0) THEN Some(-90) ELSE Some(90)
PolarLatTs(truelat1) == IF _ismissing(truelat1) THEN None ELSE truelat1

PolarStereographicInit(a) ==
    LET o == WrfProjInit("PolarStereographic", a) IN
    IF o.state = "raised" THEN o
    ELSE IF ~CanOrder(o.truelat1) THEN Raised(o.cls, "TypeError")
    ELSE o @@ [_hemi |-> PolarHemi(o.truelat1),
               _lat_ts |-> PolarLatTs(o.truelat1)]

LatLonInit(a) == WrfProjInit("LatLon", a)

\* RotatedNorth, were a pole_lon of 180 guessed from moad_cen_lat too.
RotatedNorth_Guess180(pole_lon, moad_cen_lat) ==
    IF PyEq(pole_lon, 0) THEN FALSE
    ELSE ~(~IsNone(moad_cen_lat) /\ Val(moad_cen_lat) < 0)

\* RotatedNorth, were a pole_lon of 0 guessed from moad_cen_lat too.
RotatedNorth_Guess0(pole_lon, moad_cen_lat) ==
    IF PyEq(pole_lon, 180) THEN TRUE
    ELSE ~(~IsNone(moad_cen_lat) /\ Val(moad_cen_lat) < 0)

\* self._north as RotatedLatLon.__init__ determines it.
RotatedNorth(pole_lon, moad_cen_lat) ==
    IF ~IsNone(pole_lon)
    THEN IF PyEq(pole_lon, 0) THEN FALSE
         ELSE IF ~PyEq(pole_lon, 180)
              THEN ~(~IsNone(moad_cen_lat) /\ Val(moad_cen_lat) < 0)
              ELSE TRUE
    ELSE ~(~IsNone(moad_cen_lat) /\ Val(moad_cen_lat) < 0)

\* Both pole_lat and stand_lon are known: the first branch of __init__.
RotatedKnown(o) == ~IsNone(o.pole_lat) /\ ~IsNone(o.stand_lon)

\* PynglCenLat with the southern latitude written -pole_lat - 90.
PynglCenLat_NegatedPole(pole_lat, north) ==
    IF north THEN Some(90 - Val(pole_lat)) ELSE Some(-Val(pole_lat) - 90)

\* _pyngl_cen_lat and _pyngl_cen_lon when pole_lat and stand_lon are known.
PynglCenLat(pole_lat, north) ==
    IF north THEN Some(90 - Val(pole_lat)) ELSE Some(Val(pole_lat) - 90)
PynglCenLon(stand_lon, north) ==
    IF north THEN Some(-Val(stand_lon)) ELSE Some(180 - Val(stand_lon))

\* _bm_lon_0, written the same way in both branches.
BmLon0(stand_lon, north) ==
    IF north THEN Some(-Val(stand_lon)) ELSE Some(180 - Val(stand_lon))

\* BmCartPoleLatFallback with the northern formula in both hemispheres.
BmCartPoleLatFallback_NorthOnly(moad_cen_lat, north) ==
    Some(90 - Val(moad_cen_lat))

\* _bm_cart_pole_lat of the first branch and of the fallback branch.
BmCartPoleLat(pole_lat, north) ==
    IF north THEN pole_lat ELSE Some(-Val(pole_lat))
BmCartPoleLatFallback(moad_cen_lat, north) ==
    IF north THEN Some(90 - Val(moad_cen_lat))
    ELSE Some(-90 - Val(moad_cen_lat))

\* CartPoleLon with the southern longitude offset by 180 as well.
CartPoleLon_OffsetBoth(stand_lon, north) == Some(-Val(stand_lon) - 180)

\* _cart_pole_lon, written the same way in both branches.
CartPoleLon(stand_lon, north) ==
    IF north THEN Some(-Val(stand_lon) - 180) ELSE Some(-Val(stand_lon))

RotatedDerived(o, north) ==
    IF RotatedKnown(o)
    THEN [_north |-> north,
          _pyngl_cen_lat |-> PynglCenLat(o.pole_lat, north),
          _pyngl_cen_lon |-> PynglCenLon(o.stand_lon, north),
          _bm_lon_0 |-> BmLon0(o.stand_lon, north),
          _bm_cart_pole_lat |-> BmCartPoleLat(o.pole_lat, north),
          _cart_pole_lon |-> CartPoleLon(o.stand_lon, north)]
    ELSE [_north |-> north,
          _pyngl_cen_lat |-> o.moad_cen_lat,
          _pyngl_cen_lon |-> o.stand_lon,
          _bm_cart_pole_lat |-> BmCartPoleLatFallback(o.moad_cen_lat, north),
          _bm_lon_0 |-> BmLon0(o.stand_lon, north),
          _cart_pole_lon |-> CartPoleLon(o.stand_lon, north)]

RotatedLatLonInit(a) ==
    LET o == WrfProjInit("RotatedLatLon", a) IN
    IF o.state = "raised" THEN o
    ELSE IF ~RotatedKnown(o) /\ (IsNone(o.moad_cen_lat) \/ IsNone(o.stand_lon))
         \* the fallback branch subtracts from or negates None
         THEN Raised(o.cls, "TypeError")
    ELSE o @@ RotatedDerived(o, RotatedNorth(o.pole_lon, o.moad_cen_lat))

---------------------------------------------------------------------------
(* getproj *)

\* up_proj_params.get("MAP_PROJ", 0)
ProjType(a) == IF IsNone(a.MAP_PROJ) THEN ZERO ELSE Val(a.MAP_PROJ)

\* GetprojClass without the test for ProjectionTypes.ZERO.
GetprojClass_NoZero(a) ==
    IF ProjType(a) = LAMBERT_CONFORMAL THEN "LambertConformal"
    ELSE IF ProjType(a) = POLAR_STEREOGRAPHIC THEN "PolarStereographic"
    ELSE IF ProjType(a) = MERCATOR THEN "Mercator"
    ELSE IF ProjType(a) = LAT_LON
         THEN IF PyEq(a.POLE_LAT, 90) /\ PyEq(a.POLE_LON, 0)
              THEN "LatLon"
              ELSE "RotatedLatLon"
    ELSE "WrfProj"

\* The class getproj constructs.
GetprojClass(a) ==
    IF ProjType(a) = LAMBERT_CONFORMAL THEN "LambertConformal"
    ELSE IF ProjType(a) = POLAR_STEREOGRAPHIC THEN "PolarStereographic"
    ELSE IF ProjType(a) = MERCATOR THEN "Mercator"
    ELSE IF ProjType(a) = ZERO \/ ProjType(a) = LAT_LON
         THEN IF PyEq(a.POLE_LAT, 90) /\ PyEq(a.POLE_LON, 0)
              THEN "LatLon"
              ELSE "RotatedLatLon"
    ELSE "WrfProj"

\* cls(bottom_left, top_right, lats, lons, **proj_params)
New(c, a) ==
    CASE c = "LambertConformal" -> LambertConformalInit(a)
      [] c = "PolarStereographic" -> PolarStereographicInit(a)
      [] c = "Mercator" -> MercatorInit(a)
      [] c = "LatLon" -> LatLonInit(a)
      [] c = "RotatedLatLon" -> RotatedLatLonInit(a)
      [] OTHER -> WrfProjInit("WrfProj", a)

getproj(a) == New(GetprojClass(a), a)

---------------------------------------------------------------------------
(* The output representations: _proj4 and _cf_params *)

\* The outcome of an accessor call: what it returned or the exception it
\* raised, and what the capability query answered ("unused": none made).
Returned(op, cap, v) == [op |-> op, cap |-> cap, exc |-> "", val |-> v]
Threw(op, cap, e) == [op |-> op, cap |-> cap, exc |-> e, val |-> PyNone]

\* Constants.WRF_EARTH_RADIUS (wrf/constants.py), kept symbolic.
WRF_EARTH_RADIUS == "WRF_EARTH_RADIUS"

\* EffectiveTruelat2 without the substitution.
EffectiveTruelat2_Stored(o) == o.truelat2

\* The second parallel _proj4 and _pyngl of LambertConformal compute.
EffectiveTruelat2(o) ==
    IF _ismissing(o.truelat2) THEN o.truelat1 ELSE o.truelat2

\* A PROJ.4 string is a record of its +key=value tokens; a None value is
\* formatted as the text None and stays <<>> here.
LambertProj4(o) ==
    [kind |-> "proj4", proj |-> "lcc", units |-> "meters",
     a |-> WRF_EARTH_RADIUS, b |-> WRF_EARTH_RADIUS,
     lat_1 |-> o.truelat1, lat_2 |-> EffectiveTruelat2(o),
     lat_0 |-> o.moad_cen_lat, lon_0 |-> o.stand_lon]

MercatorProj4(o) ==
    [kind |-> "proj4", proj |-> "merc", units |-> "meters",
     a |-> WRF_EARTH_RADIUS, b |-> WRF_EARTH_RADIUS,
     lon_0 |-> o.stand_lon, lat_ts |-> o._lat_ts]

\* The code writes the key of the origin latitude as +lat0.
PolarProj4(o) ==
    [kind |-> "proj4", proj |-> "stere", units |-> "meters",
     a |-> WRF_EARTH_RADIUS, b |-> WRF_EARTH_RADIUS,
     lat0 |-> o._hemi, lon_0 |-> o.stand_lon, lat_ts |-> o._lat_ts]

LatLonProj4(o) ==
    [kind |-> "proj4", proj |-> "eqc", units |-> "meters",
     a |-> WRF_EARTH_RADIUS, b |-> WRF_EARTH_RADIUS,
     lon_0 |-> o.stand_lon]

\* math.radians(deg), in millionths of a radian, rounded down.
radians(deg) == (deg * 3141592) \div 180

\* RotatedProj4 without the 180 added to the dateline longitude.
RotatedProj4_NoOffset(o) ==
    [kind |-> "proj4", proj |-> "ob_tran", o_proj |-> "latlon",
     a |-> WRF_EARTH_RADIUS, b |-> WRF_EARTH_RADIUS,
     to_meter |-> radians(1),
     o_lon_p |-> Some(180 - Val(o.pole_lon)),
     o_lat_p |-> o._bm_cart_pole_lat,
     lon_0 |-> o._cart_pole_lon]

RotatedProj4(o) ==
    [kind |-> "proj4", proj |-> "ob_tran", o_proj |-> "latlon",
     a |-> WRF_EARTH_RADIUS, b |-> WRF_EARTH_RADIUS,
     to_meter |-> radians(1),
     o_lon_p |-> Some(180 - Val(o.pole_lon)),
     o_lat_p |-> o._bm_cart_pole_lat,
     lon_0 |-> Some(180 + Val(o._cart_pole_lon))]

\* proj4()
proj4(o) ==
    CASE o.cls = "LambertConformal" ->
            Returned("proj4", "unused", LambertProj4(o))
      [] o.cls = "Mercator" -> Returned("proj4", "unused", MercatorProj4(o))
      [] o.cls = "PolarStereographic" ->
            Returned("proj4", "unused", PolarProj4(o))
      [] o.cls = "LatLon" -> Returned("proj4", "unused", LatLonProj4(o))
      [] o.cls = "RotatedLatLon" ->
            IF IsNone(o.pole_lon)
            THEN Threw("proj4", "unused", "TypeError")  \* 180.0 - None
            ELSE Returned("proj4", "unused", RotatedProj4(o))
      [] OTHER -> Returned("proj4", "unused", PyNone)

LambertCf(o) ==
    [kind |-> "cf", grid_mapping_name |-> "lambert_conformal_conic",
     standard_parallel |-> o._std_parallels,
     longitude_of_central_meridian |-> o.stand_lon,
     latitude_of_projection_origin |-> o.moad_cen_lat,
     semi_major_axis |-> WRF_EARTH_RADIUS]

MercatorCf(o) ==
    [kind |-> "cf", grid_mapping_name |-> "mercator",
     longitude_of_projection_origin |-> o.stand_lon,
     standard_parallel |-> o.truelat1]

PolarCf(o) ==
    [kind |-> "cf", grid_mapping_name |-> "polar_stereographic",
     straight_vertical_longitude_from_pole |-> o.stand_lon,
     standard_parallel |-> o.truelat1,
     latitude_of_projection_origin |-> o._hemi]

LatLonCf(o) == [kind |-> "cf", grid_mapping_name |-> "latitude_longitude"]

\* RotatedCf with the pole longitude in the convention of the PROJ
\* descriptor, 180 - pole_lon.
RotatedCf_AdjustedPoleLon(o) ==
    [kind |-> "cf", grid_mapping_name |-> "rotated_latitude_longitude",
     grid_north_pole_latitude |-> o._bm_cart_pole_lat,
     grid_north_pole_longitude |->
         IF IsNone(o.pole_lon) THEN None ELSE Some(180 - Val(o.pole_lon)),
     north_pole_grid_longitude |-> o._bm_lon_0]

RotatedCf(o) ==
    [kind |-> "cf", grid_mapping_name |-> "rotated_latitude_longitude",
     grid_north_pole_latitude |-> o._bm_cart_pole_lat,
     grid_north_pole_longitude |-> o.pole_lon,
     north_pole_grid_longitude |-> o._bm_lon_0]

\* cf()
cf(o) ==
    CASE o.cls = "LambertConformal" -> Returned("cf", "unused", LambertCf(o))
      [] o.cls = "Mercator" -> Returned("cf", "unused", MercatorCf(o))
      [] o.cls = "PolarStereographic" -> Returned("cf", "unused", PolarCf(o))
      [] o.cls = "LatLon" -> Returned("cf", "unused", LatLonCf(o))
      [] o.cls = "RotatedLatLon" -> Returned("cf", "unused", RotatedCf(o))
      [] OTHER -> Returned("cf", "unused", PyNone)

---------------------------------------------------------------------------
(* The toolkit representations: basemap(), pyngl(), cartopy() *)

\* What basemap_enabled(), cartopy_enabled() or pyngl_enabled() answered.
Cap(en) == IF en THEN "enabled" ELSE "disabled"

\* The keyword arguments common to every Basemap(...) call; resolution is
\* the default 'l'.
BasemapCorners(o) ==
    [kind |-> "Basemap",
     llcrnrlat |-> o.ll_lat, urcrnrlat |-> o.ur_lat,
     llcrnrlon |-> o.ll_lon, urcrnrlon |-> o.ur_lon,
     rsphere |-> WRF_EARTH_RADIUS, resolution |-> "l"]

LambertBasemap(o) ==
    BasemapCorners(o) @@
    [projection |-> "lcc", lon_0 |-> o.stand_lon, lat_0 |-> o.moad_cen_lat,
     lat_1 |-> o.truelat1, lat_2 |-> o.truelat2]

MercatorBasemap(o) ==
    BasemapCorners(o) @@
    [projection |-> "merc", lon_0 |-> o.stand_lon, lat_0 |-> o.moad_cen_lat,
     lat_ts |-> o._lat_ts]

PolarBasemap(o) ==
    BasemapCorners(o) @@
    [projection |-> "stere", lon_0 |-> o.stand_lon, lat_0 |-> o._hemi,
     lat_ts |-> o._lat_ts]

LatLonBasemap(o) ==
    BasemapCorners(o) @@
    [projection |-> "cyl", lon_0 |-> o.stand_lon, lat_0 |-> o.moad_cen_lat]

RotatedBasemap(o) ==
    BasemapCorners(o) @@
    [projection |-> "rotpole", o_lat_p |-> o._bm_cart_pole_lat,
     o_lon_p |-> o.pole_lon, lon_0 |-> o._bm_lon_0]

\* basemap(): the Basemap constructor is taken to accept its arguments.
basemap(o, en) ==
    IF ~en THEN Threw("basemap", Cap(en), "RuntimeError")
    ELSE CASE o.cls = "LambertConformal" ->
                 Returned("basemap", Cap(en), LambertBasemap(o))
           [] o.cls = "Mercator" ->
                 Returned("basemap", Cap(en), MercatorBasemap(o))
           [] o.cls = "PolarStereographic" ->
                 Returned("basemap", Cap(en), PolarBasemap(o))
           [] o.cls = "LatLon" ->
                 Returned("basemap", Cap(en), LatLonBasemap(o))
           [] o.cls = "RotatedLatLon" ->
                 Returned("basemap", Cap(en), RotatedBasemap(o))
           [] OTHER -> Returned("basemap", Cap(en), PyNone)

\* The resources common to every _pyngl.
PynglCorners(o) ==
    [kind |-> "Resources",
     mpDataBaseVersion |-> "MediumRes", mpLimitMode |-> "Corners",
     mpLeftCornerLonF |-> o.ll_lon, mpLeftCornerLatF |-> o.ll_lat,
     mpRightCornerLonF |-> o.ur_lon, mpRightCornerLatF |-> o.ur_lat]

\* LambertPyngl passing the stored truelat2 through.
LambertPyngl_Stored(o) ==
    PynglCorners(o) @@
    [mpProjection |-> "LambertConformal",
     mpLambertMeridianF |-> o.stand_lon,
     mpLambertParallel1F |-> o.truelat1,
     mpLambertParallel2F |-> o.truelat2]

LambertPyngl(o) ==
    PynglCorners(o) @@
    [mpProjection |-> "LambertConformal",
     mpLambertMeridianF |-> o.stand_lon,
     mpLambertParallel1F |-> o.truelat1,
     mpLambertParallel2F |-> EffectiveTruelat2(o)]

MercatorPyngl(o) ==
    PynglCorners(o) @@
    [mpProjection |-> "Mercator",
     mpCenterLatF |-> Some(0), mpCenterLonF |-> o.stand_lon]

PolarPyngl(o) ==
    PynglCorners(o) @@
    [mpProjection |-> "Stereographic",
     mpCenterLonF |-> o.stand_lon,
     mpCenterLatF |-> IF Val(o._hemi) > 0 THEN Some(90) ELSE Some(-90)]

LatLonPyngl(o) ==
    PynglCorners(o) @@
    [mpProjection |-> "CylindricalEquidistant",
     mpCenterLonF |-> o.stand_lon, mpCenterLatF |-> o.moad_cen_lat]

RotatedPyngl(o) ==
    PynglCorners(o) @@
    [mpProjection |-> "CylindricalEquidistant",
     mpCenterLatF |-> o._pyngl_cen_lat, mpCenterLonF |-> o._pyngl_cen_lon]

\* pyngl(): every subclass's _pyngl calls bytes() on a text literal, which
\* Python 3 refuses (TypeError: string argument without an encoding).
pyngl(o, en) ==
    IF ~en THEN Threw("pyngl", Cap(en), "RuntimeError")
    ELSE IF o.cls \in {"WrfProj", "NullProjection"}
         THEN Returned("pyngl", Cap(en), PyNone)
    ELSE IF py3 THEN Threw("pyngl", Cap(en), "TypeError")
    ELSE CASE o.cls = "LambertConformal" ->
                 Returned("pyngl", Cap(en), LambertPyngl(o))
           [] o.cls = "Mercator" ->
                 Returned("pyngl", Cap(en), MercatorPyngl(o))
           [] o.cls = "PolarStereographic" ->
                 Returned("pyngl", Cap(en), PolarPyngl(o))
           [] o.cls = "LatLon" ->
                 Returned("pyngl", Cap(en), LatLonPyngl(o))
           [] OTHER -> Returned("pyngl", Cap(en), RotatedPyngl(o))

\* FixXLimits negating the right limit whatever the sign.
FixXLimits_Right(xlimits) ==
    IF xlimits[1] = xlimits[2]
    THEN <<xlimits[1], -xlimits[2]>>
    ELSE xlimits

\* The sign correction of MercatorWithLatTS.__init__ on the x-limits that
\* transform_points returned.
FixXLimits(xlimits) ==
    IF xlimits[1] = xlimits[2]
    THEN IF xlimits[1] < 0
         THEN <<xlimits[1], -xlimits[2]>>
         ELSE <<-xlimits[1], xlimits[2]>>
    ELSE xlimits

\* MercatorWithLatTS(central_longitude, latitude_true_scale, globe), where
\* transform_points gave the plane limits xl and yl.  _threshold, a quotient
\* of the stored x-limits, is left out.
MercatorWithLatTS(central_longitude, latitude_true_scale, xl, yl) ==
    [kind |-> "MercatorWithLatTS",
     lon_0 |-> central_longitude, lat_ts |-> latitude_true_scale,
     k |-> Some(1), units |-> "m",
     limits_x |-> xl,
     _xlimits |-> FixXLimits(xl), _ylimits |-> yl]

LambertCartopy(o) ==
    [kind |-> "crs.LambertConformal",
     central_longitude |-> o.stand_lon,
     central_latitude |-> o.moad_cen_lat,
     standard_parallels |-> o._std_parallels]

\* Mercator._cartopy: the plain crs.Mercator when _lat_ts == 0.0.
MercatorCartopy(o, xl, yl) ==
    IF PyEq(o._lat_ts, 0)
    THEN [kind |-> "crs.Mercator", central_longitude |-> o.stand_lon]
    ELSE MercatorWithLatTS(o.stand_lon, o._lat_ts, xl, yl)

PolarCartopy(o) ==
    [kind |-> "crs.Stereographic",
     central_latitude |-> o._hemi, central_longitude |-> o.stand_lon,
     true_scale_latitude |-> o._lat_ts]

LatLonCartopy(o) ==
    [kind |-> "crs.PlateCarree", central_longitude |-> o.stand_lon]

RotatedCartopy(o) ==
    [kind |-> "crs.RotatedPole",
     pole_longitude |-> o._cart_pole_lon,
     pole_latitude |-> o._bm_cart_pole_lat,
     central_rotated_longitude |-> Some(180 - Val(o.pole_lon))]

\* self._cartopy() with cartopy enabled; the cartopy constructors are taken
\* to accept their arguments.
_cartopy(op, o, xl, yl) ==
    CASE o.cls = "LambertConformal" ->
            Returned(op, "enabled", LambertCartopy(o))
      [] o.cls = "Mercator" ->
            Returned(op, "enabled", MercatorCartopy(o, xl, yl))
      [] o.cls = "PolarStereographic" ->
            Returned(op, "enabled", PolarCartopy(o))
      [] o.cls = "LatLon" -> Returned(op, "enabled", LatLonCartopy(o))
      [] o.cls = "RotatedLatLon" ->
            IF IsNone(o.pole_lon)
            THEN Threw(op, "enabled", "TypeError")  \* 180.0 - None
            ELSE Returned(op, "enabled", RotatedCartopy(o))
      [] OTHER -> Returned(op, "enabled", PyNone)

\* cartopy()
cartopy(o, en, xl, yl) ==
    IF ~en THEN Threw("cartopy", Cap(en), "RuntimeError")
    ELSE _cartopy("cartopy", o, xl, yl)

---------------------------------------------------------------------------
(* The extents: _cart_extents, cartopy_xlim(), cartopy_ylim() *)

\* WrfProj._cart_extents: ([ll_lon, ur_lon], [ll_lat, ur_lat])
RawExtents(o) == << <<o.ll_lon, o.ur_lon>>, <<o.ll_lat, o.ur_lat>> >>

\* LatLonExtents putting the smaller value of each pair first.
LatLonExtents_Sorted(o) ==
    << IF o.ll_lon <= o.ur_lon THEN <<o.ll_lon, o.ur_lon>>
       ELSE <<o.ur_lon, o.ll_lon>>,
       IF o.ll_lat <= o.ur_lat THEN <<o.ll_lat, o.ur_lat>>
       ELSE <<o.ur_lat, o.ll_lat>> >>

\* LatLon._cart_extents, the same pair of lists.
LatLonExtents(o) == << <<o.ll_lon, o.ur_lon>>, <<o.ll_lat, o.ur_lat>> >>

\* _cart_extents called by op, selecting element i of its pair.  Without
\* cartopy the subclasses fail on crs (never imported: NameError) or on the
\* None that _cartopy returns (disabled after the import: AttributeError),
\* which noCrs names.  xs and ys are what transform_points gives for the
\* two corners; xl, yl the limits inside a MercatorWithLatTS.
_cart_extents(op, i, o, en, noCrs, xl, yl, xs, ys) ==
    CASE o.cls = "NullProjection" ->
            Threw(op, "unused", "AttributeError")  \* no self.ll_lon
      [] o.cls = "WrfProj" ->
            Returned(op, "unused", [kind |-> "list", list |-> RawExtents(o)[i]])
      [] o.cls = "LatLon" ->
            Returned(op, "unused",
                     [kind |-> "list", list |-> LatLonExtents(o)[i]])
      [] OTHER ->
            IF ~en THEN Threw(op, Cap(en), noCrs)
            ELSE IF _cartopy(op, o, xl, yl).exc # ""
                 THEN _cartopy(op, o, xl, yl)
            ELSE Returned(op, Cap(en),
                          [kind |-> "list", list |-> <<xs, ys>>[i]])

---------------------------------------------------------------------------
(* The session *)

NoObject == [state |-> "none"]
NoCall == [op |-> "none"]

Init ==
    /\ py3 \in BOOLEAN
    /\ args = None
    /\ obj = NoObject
    /\ ret = NoCall

\* One call of getproj or of a class, with its arguments.
Construct ==
    /\ obj.state = "none"
    /\ \E a \in Calls :
          /\ args' = Some(a)
          /\ obj' = IF a.ctor = "getproj" THEN getproj(a) ELSE New(a.ctor, a)
    /\ UNCHANGED <<py3, ret>>

\* NullProjection(): __init__ sets no attribute.
NewNullProjection ==
    /\ obj.state = "none"
    /\ args' = Some([ctor |-> "NullProjection"])
    /\ obj' = [state |-> "ok", cls |-> "NullProjection"]
    /\ UNCHANGED <<py3, ret>>

\* What the external libraries may answer: the plane limits that
\* transform_points gives MercatorWithLatTS.__init__, and the plane
\* coordinates it gives _cart_extents for the two corners, on one axis.
PlaneXVals == {-20, 0, 20}
PlaneXPairs == PlaneXVals \X PlaneXVals
PlaneYPairs == {<<-15, 15>>}
CornerPairs == {<<-7, 7>>, <<7, -7>>, <<7, 7>>}
CrsFailures == {"NameError", "AttributeError"}

\* What a cartopy() call meets: the capability answer and, for a Mercator
\* with cartopy enabled (the only case that builds a MercatorWithLatTS),
\* the limits; in the other cases the limits are never asked for and one
\* choice stands for all.
CartopyWorlds(o) ==
    [en : {FALSE}, xl : {<<-20, 20>>}] \cup
    [en : {TRUE},
     xl : IF o.cls = "Mercator" THEN PlaneXPairs ELSE {<<-20, 20>>}]

\* What an extent call meets: without cartopy the way crs fails, with it
\* the corner coordinates on the axis asked for.
ExtentWorlds ==
    [en : {FALSE}, noCrs : CrsFailures, pts : {<<-7, 7>>}] \cup
    [en : {TRUE}, noCrs : {"NameError"}, pts : CornerPairs]

Constructed == obj.state = "ok"

CallProj4 ==
    /\ Constructed
    /\ ret' = proj4(obj)
    /\ UNCHANGED <<py3, args, obj>>

CallCf ==
    /\ Constructed
    /\ ret' = cf(obj)
    /\ UNCHANGED <<py3, args, obj>>

CallBasemap ==
    /\ Constructed
    /\ \E en \in BOOLEAN : ret' = basemap(obj, en)
    /\ UNCHANGED <<py3, args, obj>>

CallPyngl ==
    /\ Constructed
    /\ \E en \in BOOLEAN : ret' = pyngl(obj, en)
    /\ UNCHANGED <<py3, args, obj>>

CallCartopy ==
    /\ Constructed
    /\ \E w \in CartopyWorlds(obj), yl \in PlaneYPairs :
          ret' = cartopy(obj, w.en, w.xl, yl)
    /\ UNCHANGED <<py3, args, obj>>

\* The limits inside a MercatorWithLatTS and the other axis's coordinates
\* do not reach the result: one choice of each stands for all.
CallCartopyXlim ==
    /\ Constructed
    /\ \E w \in ExtentWorlds :
          ret' = _cart_extents("cartopy_xlim", 1, obj, w.en, w.noCrs,
                               <<-20, 20>>, <<-15, 15>>, w.pts, <<-7, 7>>)
    /\ UNCHANGED <<py3, args, obj>>

CallCartopyYlim ==
    /\ Constructed
    /\ \E w \in ExtentWorlds :
          ret' = _cart_extents("cartopy_ylim", 2, obj, w.en, w.noCrs,
                               <<-20, 20>>, <<-15, 15>>, <<-7, 7>>, w.pts)
    /\ UNCHANGED <<py3, args, obj>>

Next ==
    \/ Construct
    \/ NewNullProjection
    \/ CallProj4
    \/ CallCf
    \/ CallBasemap
    \/ CallPyngl
    \/ CallCartopy
    \/ CallCartopyXlim
    \/ CallCartopyYlim

Spec == Init /\ [][Next]_vars

---------------------------------------------------------------------------
(* The session with a caller that edits what the accessors returned *)

\* What the caller appends.
CallerValues == {Some(45)}

\* The caller appends to the standard_parallel list of the mapping cf()
\* just returned.  _cf_params stores self._std_parallels itself under that
\* key, so the list of the mapping and the list of the object are one list.
CallerAppendsParallel ==
    /\ Constructed /\ obj.cls = "LambertConformal"
    /\ ret.op = "cf" /\ ret.exc = ""
    /\ Len(obj._std_parallels) < MaxListLen
    /\ \E v \in CallerValues :
          /\ obj' = [obj EXCEPT !._std_parallels = Append(@, v)]
          /\ ret' = [ret EXCEPT !.val.standard_parallel = Append(@, v)]
    /\ UNCHANGED <<py3, args>>

\* The caller appends to the list an extent accessor of the base class or
\* of LatLon just returned.  _cart_extents builds that list anew on every
\* call, so only the caller's list changes.
CallerAppendsExtent ==
    /\ Constructed /\ obj.cls \in {"WrfProj", "LatLon"}
    /\ ret.op \in {"cartopy_xlim", "cartopy_ylim"} /\ ret.exc = ""
    /\ Len(ret.val.list) < MaxListLen
    /\ \E v \in CallerValues :
          ret' = [ret EXCEPT !.val.list = Append(@, Val(v))]
    /\ UNCHANGED <<py3, args, obj>>

NextAlias ==
    \/ Next
    \/ CallerAppendsParallel
    \/ CallerAppendsExtent

SpecAlias == Init /\ [][NextAlias]_vars

---------------------------------------------------------------------------
(* Properties *)

\* The construction call was made with arguments (not NullProjection()).
Called == args # None /\ Val(args).ctor # "NullProjection"

Given(x) == ~IsNone(x)

\* The last accessor call was op and returned.
Got(op) == ret.op = op /\ ret.exc = ""

\* The factory's table as section 4.10 states it, on the type code.
C1_Table(a) ==
    LET code == IF Given(a.MAP_PROJ) THEN Val(a.MAP_PROJ) ELSE 0 IN
    CASE code = LAMBERT_CONFORMAL -> "LambertConformal"
      [] code = POLAR_STEREOGRAPHIC -> "PolarStereographic"
      [] code = MERCATOR -> "Mercator"
      [] code \in {0, LAT_LON} ->
            IF a.POLE_LAT = Some(90) /\ a.POLE_LON = Some(0)
            THEN "LatLon" ELSE "RotatedLatLon"
      [] OTHER -> "WrfProj"

\* Exactly one of the two corner-supplying modes is given, and completely.
ExactlyOneMode(a) ==
    \/ /\ Given(a.bottom_left) /\ Given(a.top_right)
       /\ ~Given(a.lats) /\ ~Given(a.lons)
    \/ /\ ~Given(a.bottom_left) /\ ~Given(a.top_right)
       /\ Given(a.lats) /\ Given(a.lons)

\* The raw corner box of a call that gives exactly one mode: the longitudes
\* and the latitudes of the lower-left and the upper-right corner.
RawBox(a) ==
    IF Given(a.bottom_left)
    THEN << <<Val(a.bottom_left).lon, Val(a.top_right).lon>>,
            <<Val(a.bottom_left).lat, Val(a.top_right).lat>> >>
    ELSE << <<Val(a.lons)[1][1], Val(a.lons)[2][2]>>,
            <<Val(a.lats)[1][1], Val(a.lats)[2][2]>> >>

\* C1: getproj constructs the class that section 4.10 gives for the type
\* code (an absent MAP_PROJ counts as code 0; code 0 or 6 is LatLon exactly
\* when POLE_LAT == 90 and POLE_LON == 0, else RotatedLatLon); for any other
\* code and a valid corner specification it returns the base WrfProj without
\* raising, whose proj4() and cf() return None and whose extents are the raw
\* corner box.
C1_GetprojDispatch ==
    (Called /\ Val(args).ctor = "getproj") =>
        LET a == Val(args) IN
        /\ obj.cls = C1_Table(a)
        /\ (C1_Table(a) = "WrfProj" /\ ExactlyOneMode(a)) =>
              /\ obj.state = "ok"
              /\ ret.op = "proj4" => (ret.exc = "" /\ ret.val = PyNone)
              /\ ret.op = "cf" => (ret.exc = "" /\ ret.val = PyNone)
              /\ ret.op = "cartopy_xlim" =>
                    (ret.exc = "" /\ ret.val.list = RawBox(a)[1])
              /\ ret.op = "cartopy_ylim" =>
                    (ret.exc = "" /\ ret.val.list = RawBox(a)[2])

\* C1 witness: getproj met an unknown code, returned the base variant, and
\* its x-extent was read.
C1_Witness ==
    /\ Called /\ Val(args).ctor = "getproj"
    /\ Val(args).MAP_PROJ = Some(4)
    /\ obj.state = "ok" /\ obj.cls = "WrfProj"
    /\ Got("cartopy_xlim") /\ ret.val.list = <<-120, -60>>

\* The construction call failed with the construction error.
ValueErrorRaised == obj.state = "raised" /\ obj.exc = "ValueError"

IsRotated == obj.state = "ok" /\ obj.cls = "RotatedLatLon"

\* moad_cen_lat is known and negative.
MoadNegative == Given(obj.moad_cen_lat) /\ Val(obj.moad_cen_lat) < 0

\* C3 as stated: with pole_lon absent or equal to 180 the hemisphere is
\* northern if moad_cen_lat is absent or >= 0 and southern if it is known
\* and negative.
C3_Original ==
    (IsRotated /\ (~Given(obj.pole_lon) \/ obj.pole_lon = Some(180))) =>
        (obj._north <=> ~MoadNegative)

\* C3 amended: with pole_lon equal to 180 the hemisphere is northern
\* whatever moad_cen_lat is; with pole_lon absent it is northern if
\* moad_cen_lat is absent or >= 0 and southern if it is known and negative.
C3_DefaultHemisphere ==
    IsRotated =>
        /\ obj.pole_lon = Some(180) => obj._north
        /\ ~Given(obj.pole_lon) => (obj._north <=> ~MoadNegative)

\* C3 witness: pole_lon is 180, moad_cen_lat is negative, and the
\* hemisphere is northern.
C3_Witness ==
    /\ IsRotated
    /\ obj.pole_lon = Some(180)
    /\ obj.moad_cen_lat = Some(-39)
    /\ obj._north

\* C4: a pole_lon of 0 gives the southern hemisphere whatever moad_cen_lat
\* is; a pole_lon that is given and neither 0 nor 180 gives the southern
\* hemisphere if and only if moad_cen_lat is known and negative.
C4_ExplicitPoleLon ==
    IsRotated =>
        /\ obj.pole_lon = Some(0) => ~obj._north
        /\ (Given(obj.pole_lon) /\ Val(obj.pole_lon) \notin {0, 180}) =>
              (~obj._north <=> MoadNegative)

\* C4 witness: pole_lon is 0, moad_cen_lat is positive, and the hemisphere
\* is southern.
C4_Witness ==
    /\ IsRotated
    /\ obj.pole_lon = Some(0)
    /\ obj.moad_cen_lat = Some(39)
    /\ ~obj._north

IsLambert == obj.state = "ok" /\ obj.cls = "LambertConformal"

\* TRUELAT2 is absent: not supplied, or outside [-90, 90].
Truelat2Absent(a) ==
    ~Given(a.TRUELAT2) \/ Val(a.TRUELAT2) > 90 \/ Val(a.TRUELAT2) < -90

\* The effective second parallel: truelat1 when truelat2 is absent.
SecondParallel(a) == IF Truelat2Absent(a) THEN a.TRUELAT1 ELSE a.TRUELAT2

\* C5 as stated: +lat_2 of the PROJ descriptor and the second parallel of
\* the CF mapping's standard_parallel both equal truelat1 when truelat2 is
\* absent and truelat2 when it is present and valid.
C5_Original ==
    IsLambert =>
        /\ Got("proj4") => ret.val.lat_2 = SecondParallel(Val(args))
        /\ Got("cf") =>
              /\ Len(ret.val.standard_parallel) = 2
              /\ ret.val.standard_parallel[2] = SecondParallel(Val(args))

\* C5 amended: +lat_2 of the PROJ descriptor equals truelat1 when truelat2
\* is absent and truelat2 when it is present and valid; the CF mapping's
\* standard_parallel is the one-element list [truelat1] when truelat2 is
\* absent (it has no second entry) and [truelat1, truelat2] when it is
\* present and valid.
C5_SecondParallel ==
    IsLambert =>
        LET a == Val(args) IN
        /\ Got("proj4") => ret.val.lat_2 = SecondParallel(a)
        /\ Got("cf") =>
              ret.val.standard_parallel =
                  IF Truelat2Absent(a) THEN <<a.TRUELAT1>>
                  ELSE <<a.TRUELAT1, a.TRUELAT2>>

\* C5 witness: TRUELAT2 is out of range and the CF mapping was read: its
\* standard_parallel is [30].
C5_Witness ==
    /\ IsLambert
    /\ Val(args).TRUELAT1 = Some(30) /\ Val(args).TRUELAT2 = Some(91)
    /\ Got("cf") /\ ret.val.standard_parallel = <<Some(30)>>

\* C6 as stated: the PyNGL resources and the basemap parameters both carry
\* the stored truelat2 unmodified as their second parallel.
C6_Original ==
    IsLambert =>
        /\ Got("pyngl") => ret.val.mpLambertParallel2F = obj.truelat2
        /\ Got("basemap") => ret.val.lat_2 = obj.truelat2

\* C6 amended: the basemap parameters carry the stored truelat2 unmodified
\* as lat_2, also when it is missing; the PyNGL resources carry the stored
\* truelat2 as mpLambertParallel2F when it is present and substitute
\* truelat1 when it is missing.
C6_ToolkitParallels ==
    IsLambert =>
        /\ Got("basemap") => ret.val.lat_2 = obj.truelat2
        /\ Got("pyngl") =>
              ret.val.mpLambertParallel2F =
                  IF Given(obj.truelat2) THEN obj.truelat2 ELSE obj.truelat1

\* C6 witness: truelat2 is missing and the PyNGL resources were built:
\* their second parallel is truelat1.
C6_Witness ==
    /\ IsLambert
    /\ ~Given(obj.truelat2) /\ obj.truelat1 = Some(30)
    /\ Got("pyngl") /\ ret.val.mpLambertParallel2F = Some(30)

IsMercator == obj.state = "ok" /\ obj.cls = "Mercator"

\* C7: the true-scale latitude of a Mercator is None exactly when TRUELAT1
\* is 0, not supplied, above 90 or below -90, and equals TRUELAT1 otherwise.
C7_MercatorLatTs ==
    IsMercator =>
        LET t == Val(args).TRUELAT1
            degenerate ==
                ~Given(t) \/ Val(t) = 0 \/ Val(t) > 90 \/ Val(t) < -90
        IN
        /\ ~Given(obj._lat_ts) <=> degenerate
        /\ ~degenerate => obj._lat_ts = t

\* C7 witness: a Mercator constructed with TRUELAT1 = 0 has no true-scale
\* latitude.
C7_Witness ==
    /\ IsMercator
    /\ Val(args).TRUELAT1 = Some(0)
    /\ ~Given(obj._lat_ts)

\* C8 as stated: with no true-scale latitude the cartopy representation is
\* the plain crs.Mercator; with one it is MercatorWithLatTS built with it;
\* MercatorWithLatTS is never built with an absent true-scale latitude.
C8_Claim ==
    (IsMercator /\ Got("cartopy")) =>
        /\ ~Given(obj._lat_ts) => ret.val.kind = "crs.Mercator"
        /\ Given(obj._lat_ts) =>
              /\ ret.val.kind = "MercatorWithLatTS"
              /\ ret.val.lat_ts = obj._lat_ts
        /\ ret.val.kind = "MercatorWithLatTS" => Given(ret.val.lat_ts)

\* A MercatorWithLatTS was built, and transform_points gave its two
\* x-limits the same value.
CoincidentLimits ==
    /\ Got("cartopy") /\ ret.val.kind = "MercatorWithLatTS"
    /\ ret.val.limits_x[1] = ret.val.limits_x[2]

SplitLimits ==
    /\ ret.val._xlimits[1] # ret.val._xlimits[2]
    /\ ret.val._xlimits[1] < 0
    /\ ret.val._xlimits[2] > 0

IsPolar == obj.state = "ok" /\ obj.cls = "PolarStereographic"

\* C10: for TRUELAT1 in [-90, 90] the projection-origin latitude of a
\* PolarStereographic is -90 when TRUELAT1 < 0 and 90 otherwise, and the CF
\* mapping's latitude_of_projection_origin and the PROJ descriptor's origin
\* latitude carry that value.
C10_PolarHemisphere ==
    IsPolar =>
        LET t == Val(args).TRUELAT1 IN
        (Given(t) /\ Val(t) >= -90 /\ Val(t) <= 90) =>
            LET origin == IF Val(t) < 0 THEN Some(-90) ELSE Some(90) IN
            /\ obj._hemi = origin
            /\ Got("cf") => ret.val.latitude_of_projection_origin = origin
            /\ Got("proj4") => ret.val.lat0 = origin

\* C10 witness: TRUELAT1 is 0 and the PROJ descriptor carries 90.
C10_Witness ==
    /\ IsPolar
    /\ Val(args).TRUELAT1 = Some(0)
    /\ Got("proj4") /\ ret.val.lat0 = Some(90)

\* A PolarStereographic was asked for with a valid corner specification.
PolarAsked == Called /\ obj.cls = "PolarStereographic" /\ ~ValueErrorRaised

\* TRUELAT1 is a latitude: supplied and within [-90, 90].
Truelat1Valid(a) ==
    Given(a.TRUELAT1) /\ Val(a.TRUELAT1) >= -90 /\ Val(a.TRUELAT1) <= 90

\* C11: a PolarStereographic is constructed for any TRUELAT1, and its
\* true-scale latitude equals TRUELAT1 when TRUELAT1 is in [-90, 90] and is
\* absent when TRUELAT1 is not supplied, above 90 or below -90.
C11_Claim ==
    PolarAsked =>
        /\ obj.state = "ok"
        /\ obj._lat_ts = IF Truelat1Valid(Val(args)) THEN Val(args).TRUELAT1
                         ELSE None

\* A variant was constructed from arguments.
Built == Called /\ obj.state = "ok"

\* C12: in every constructed variant the stored truelat2 is absent or lies
\* in [-90, 90]; a supplied TRUELAT2 of 0, 90 or -90 is stored as that value
\* and a supplied TRUELAT2 above 90 or below -90 is stored as absent.
C12_Truelat2Invariant ==
    Built =>
        LET t == Val(args).TRUELAT2 IN
        /\ \/ ~Given(obj.truelat2)
           \/ Val(obj.truelat2) >= -90 /\ Val(obj.truelat2) <= 90
        /\ (Given(t) /\ Val(t) \in {0, 90, -90}) => obj.truelat2 = t
        /\ (Given(t) /\ (Val(t) > 90 \/ Val(t) < -90)) => ~Given(obj.truelat2)

\* C12 witness: a variant constructed with TRUELAT2 = 0 stores 0.
C12_Witness ==
    /\ Built
    /\ Val(args).TRUELAT2 = Some(0)
    /\ obj.truelat2 = Some(0)

\* The last call was one of the three toolkit accessors.
ToolkitCall == ret.op \in {"basemap", "cartopy", "pyngl"}

\* C13: a toolkit accessor whose capability query answers unavailable fails
\* with the configuration error (RuntimeError) and returns nothing; one whose
\* capability is available returns the variant's representation and raises
\* nothing.
C13_Claim ==
    ToolkitCall =>
        /\ ret.cap = "disabled" => ret.exc = "RuntimeError"
        /\ ret.cap = "enabled" => ret.exc = ""

\* A variant whose extents are computed through its cartopy projection.
IsProjected ==
    /\ obj.state = "ok"
    /\ obj.cls \in {"LambertConformal", "Mercator", "PolarStereographic",
                    "RotatedLatLon"}

ExtentCall == ret.op \in {"cartopy_xlim", "cartopy_ylim"}

\* C14: for LambertConformal, Mercator, PolarStereographic and
\* RotatedLatLon, cartopy_xlim() or cartopy_ylim() called while cartopy is
\* unavailable fails with the configuration error (RuntimeError), not with
\* another failure and not with a returned value.
C14_Claim ==
    (IsProjected /\ ExtentCall /\ ret.cap = "disabled") =>
        ret.exc = "RuntimeError"

IsLatLon == obj.state = "ok" /\ obj.cls = "LatLon"

\* The corner box of a call that constructs: the longitudes and the
\* latitudes of the lower-left and the upper-right corner, taken from the
\* explicit corners when both are given and from the grids otherwise.
CornerBox(a) ==
    IF Given(a.bottom_left) /\ Given(a.top_right)
    THEN << <<Val(a.bottom_left).lon, Val(a.top_right).lon>>,
            <<Val(a.bottom_left).lat, Val(a.top_right).lat>> >>
    ELSE << <<Val(a.lons)[1][1], Val(a.lons)[2][2]>>,
            <<Val(a.lats)[1][1], Val(a.lats)[2][2]>> >>

C16_Claim ==
    (ExtentCall /\ ret.exc = "") => ret.val.list[1] <= ret.val.list[2]

\* C17: after construction moad_cen_lat equals MOAD_CEN_LAT when it is
\* supplied and CEN_LAT otherwise, and stand_lon equals STAND_LON when it is
\* supplied and CEN_LON otherwise; a supplied 0 counts as supplied.
C17_CenterFallbacks ==
    Built =>
        LET a == Val(args) IN
        /\ obj.moad_cen_lat =
              IF Given(a.MOAD_CEN_LAT) THEN a.MOAD_CEN_LAT ELSE a.CEN_LAT
        /\ obj.stand_lon =
              IF Given(a.STAND_LON) THEN a.STAND_LON ELSE a.CEN_LON

\* C17 witness: MOAD_CEN_LAT = 0 was supplied together with CEN_LAT = 10,
\* and the variant keeps 0.
C17_Witness ==
    /\ Built
    /\ Val(args).MOAD_CEN_LAT = Some(0) /\ Val(args).CEN_LAT = Some(10)
    /\ obj.moad_cen_lat = Some(0)

\* A RotatedLatLon was asked for with a valid corner specification and a
\* pole longitude that is absent or neither 0 nor 180.
RotatedGuessAsked ==
    /\ Called /\ obj.cls = "RotatedLatLon" /\ ~ValueErrorRaised
    /\ \/ ~Given(Val(args).POLE_LON)
       \/ Val(Val(args).POLE_LON) \notin {0, 180}

\* C18: for a RotatedLatLon whose pole longitude is absent or neither 0 nor
\* 180, construction completes without raising whichever of pole latitude,
\* standard longitude and moad center latitude are present, and every later
\* proj4() and cf() call returns without raising.
C18_Claim ==
    RotatedGuessAsked =>
        /\ obj.state = "ok"
        /\ ret.op \in {"proj4", "cf"} => ret.exc = ""

\* A RotatedLatLon was constructed whose pole latitude and standard
\* longitude are both known.
RotatedWithPole == IsRotated /\ Given(obj.pole_lat) /\ Given(obj.stand_lon)

\* The center longitude of the claim: -stand_lon north, 180 - stand_lon
\* south.
CenterLonHolds ==
    obj._pyngl_cen_lon =
        IF obj._north THEN Some(-Val(obj.stand_lon))
        ELSE Some(180 - Val(obj.stand_lon))

\* C19 as stated: with pole latitude and standard longitude known, the
\* center latitude is 90 - pole_lat in the northern hemisphere and
\* -pole_lat - 90 in the southern one, and the center longitude is
\* -stand_lon in the northern hemisphere and 180 - stand_lon in the southern
\* one.
C19_Original ==
    RotatedWithPole =>
        /\ obj._pyngl_cen_lat =
              IF obj._north THEN Some(90 - Val(obj.pole_lat))
              ELSE Some(-Val(obj.pole_lat) - 90)
        /\ CenterLonHolds

\* C19 amended: with pole latitude and standard longitude known, the center
\* latitude is 90 - pole_lat in the northern hemisphere and pole_lat - 90 in
\* the southern one, the center longitude is -stand_lon in the northern
\* hemisphere and 180 - stand_lon in the southern one, and the PyNGL
\* resources carry the pair as mpCenterLatF and mpCenterLonF.
C19_CenterPair ==
    RotatedWithPole =>
        /\ obj._pyngl_cen_lat =
              IF obj._north THEN Some(90 - Val(obj.pole_lat))
              ELSE Some(Val(obj.pole_lat) - 90)
        /\ CenterLonHolds
        /\ Got("pyngl") =>
              /\ ret.val.mpCenterLatF = obj._pyngl_cen_lat
              /\ ret.val.mpCenterLonF = obj._pyngl_cen_lon

\* C19 witness: a southern RotatedLatLon with pole_lat = 36 and
\* stand_lon = -106 gave PyNGL the center (-54, 286).
C19_Witness ==
    /\ RotatedWithPole /\ ~obj._north
    /\ obj.pole_lat = Some(36) /\ obj.stand_lon = Some(-106)
    /\ Got("pyngl")
    /\ ret.val.mpCenterLatF = Some(-54) /\ ret.val.mpCenterLonF = Some(286)

\* C20: in the known-parameter path and in the fallback path alike the
\* dateline longitude of a RotatedLatLon is -stand_lon - 180 in the northern
\* hemisphere and -stand_lon in the southern one (pole_lat = 36,
\* pole_lon = 0, stand_lon = -106 gives southern and 106), and the toolkit
\* central meridian (-stand_lon northern, 180 - stand_lon southern) exceeds
\* it by exactly 180 in both hemispheres.
C20_DatelineLongitude ==
    IsRotated =>
        /\ obj._cart_pole_lon =
              IF obj._north THEN Some(-Val(obj.stand_lon) - 180)
              ELSE Some(-Val(obj.stand_lon))
        /\ obj._bm_lon_0 =
              IF obj._north THEN Some(-Val(obj.stand_lon))
              ELSE Some(180 - Val(obj.stand_lon))
        /\ Val(obj._bm_lon_0) - Val(obj._cart_pole_lon) = 180
        /\ ( /\ obj.pole_lat = Some(36) /\ obj.pole_lon = Some(0)
             /\ obj.stand_lon = Some(-106) ) =>
              (~obj._north /\ obj._cart_pole_lon = Some(106))

\* C20 witness: the fallback path (no pole latitude) in the southern
\* hemisphere, with stand_lon = -106: the dateline longitude is 106.
C20_Witness ==
    /\ IsRotated /\ ~Given(obj.pole_lat) /\ ~obj._north
    /\ obj.stand_lon = Some(-106)
    /\ obj._cart_pole_lon = Some(106) /\ obj._bm_lon_0 = Some(286)

\* C21: the two paths of a RotatedLatLon are selected solely by whether
\* pole latitude and standard longitude are both known.  When one of them
\* is unset, the center-style pair is (moad_cen_lat, stand_lon) taken
\* directly and the toolkit rotated-pole latitude is 90 - moad_cen_lat in
\* the northern hemisphere and -90 - moad_cen_lat in the southern one; when
\* both are known the toolkit rotated-pole latitude is pole_lat (northern)
\* or -pole_lat (southern).
C21_FallbackPath ==
    IsRotated =>
        /\ ~(Given(obj.pole_lat) /\ Given(obj.stand_lon)) =>
              /\ obj._pyngl_cen_lat = obj.moad_cen_lat
              /\ obj._pyngl_cen_lon = obj.stand_lon
              /\ obj._bm_cart_pole_lat =
                    IF obj._north THEN Some(90 - Val(obj.moad_cen_lat))
                    ELSE Some(-90 - Val(obj.moad_cen_lat))
        /\ (Given(obj.pole_lat) /\ Given(obj.stand_lon)) =>
              obj._bm_cart_pole_lat =
                  IF obj._north THEN obj.pole_lat
                  ELSE Some(-Val(obj.pole_lat))

\* C21 witness: no pole latitude, pole_lon = 0 (southern), moad_cen_lat = 39
\* and stand_lon = -106: the center pair is (39, -106) and the toolkit
\* rotated-pole latitude is -129.
C21_Witness ==
    /\ IsRotated /\ ~Given(obj.pole_lat) /\ ~obj._north
    /\ obj._pyngl_cen_lat = Some(39) /\ obj._pyngl_cen_lon = Some(-106)
    /\ obj._bm_cart_pole_lat = Some(-129)

\* proj4() of a RotatedLatLon returned its descriptor.
RotatedProj4Read == IsRotated /\ Got("proj4")

\* The parts of the descriptor that C22 states apart from +to_meter: the
\* oblique transform of latlon, +lon_0 the dateline longitude plus 180 (the
\* toolkit central meridian), +o_lat_p the toolkit rotated-pole latitude and
\* +o_lon_p 180 - pole_lon.
ObliqueTransformHolds ==
    /\ ret.val.proj = "ob_tran" /\ ret.val.o_proj = "latlon"
    /\ ret.val.lon_0 = Some(Val(obj._cart_pole_lon) + 180)
    /\ ret.val.lon_0 = IF obj._north THEN Some(-Val(obj.stand_lon))
                       ELSE Some(180 - Val(obj.stand_lon))
    /\ ret.val.lon_0 = obj._bm_lon_0
    /\ ret.val.o_lat_p = obj._bm_cart_pole_lat
    /\ ret.val.o_lon_p = Some(180 - Val(Val(args).POLE_LON))

\* C22 as stated: the PROJ descriptor of a RotatedLatLon is the oblique
\* transform with these parameters, and its +to_meter factor is one radian
\* (1000000 millionths).
C22_Original ==
    RotatedProj4Read =>
        /\ ObliqueTransformHolds
        /\ ret.val.to_meter = 1000000

\* C22 amended: the PROJ descriptor of a RotatedLatLon is the oblique
\* transform with these parameters, and its +to_meter factor is one degree
\* expressed in radians, 0.017453 to six places.
C22_ObliqueDescriptor ==
    RotatedProj4Read =>
        /\ ObliqueTransformHolds
        /\ ret.val.to_meter = 17453

\* C22 witness: pole_lat = 36, pole_lon = 0, stand_lon = -106 (southern):
\* the descriptor has +lon_0 = 286, +o_lat_p = -36 and +o_lon_p = 180.
C22_Witness ==
    /\ RotatedProj4Read
    /\ obj.pole_lat = Some(36) /\ obj.pole_lon = Some(0)
    /\ obj.stand_lon = Some(-106)
    /\ ret.val.lon_0 = Some(286) /\ ret.val.o_lat_p = Some(-36)
    /\ ret.val.o_lon_p = Some(180)

\* C23: the CF mapping of a RotatedLatLon has grid_mapping_name
\* "rotated_latitude_longitude", grid_north_pole_latitude the toolkit
\* rotated-pole latitude (for a known pole latitude: pole_lat northern,
\* -pole_lat southern), grid_north_pole_longitude the POLE_LON argument
\* exactly as supplied (absent if absent), and north_pole_grid_longitude
\* the toolkit central meridian (-stand_lon northern, 180 - stand_lon
\* southern).
C23_RotatedCfMapping ==
    (IsRotated /\ ret.op = "cf") =>
        /\ ret.exc = ""
        /\ ret.val.grid_mapping_name = "rotated_latitude_longitude"
        /\ ret.val.grid_north_pole_latitude = obj._bm_cart_pole_lat
        /\ (Given(obj.pole_lat) /\ Given(obj.stand_lon)) =>
              ret.val.grid_north_pole_latitude =
                  IF obj._north THEN obj.pole_lat
                  ELSE Some(-Val(obj.pole_lat))
        /\ ret.val.grid_north_pole_longitude = Val(args).POLE_LON
        /\ ret.val.north_pole_grid_longitude = obj._bm_lon_0
        /\ ret.val.north_pole_grid_longitude =
              IF obj._north THEN Some(-Val(obj.stand_lon))
              ELSE Some(180 - Val(obj.stand_lon))

\* C23 witness: pole_lat = 36, pole_lon = 0, stand_lon = -106 (southern):
\* the CF mapping has pole latitude -36, pole longitude 0 and grid longitude
\* 286.
C23_Witness ==
    /\ IsRotated /\ Got("cf")
    /\ obj.pole_lat = Some(36) /\ Val(args).POLE_LON = Some(0)
    /\ ret.val.grid_north_pole_latitude = Some(-36)
    /\ ret.val.grid_north_pole_longitude = Some(0)
    /\ ret.val.north_pole_grid_longitude = Some(286)

\* C24: once a variant is constructed, no accessor call and no caller-side
\* modification of a returned value changes any of its stored parameters or
\* derived fields (the LambertConformal standard-parallels list included);
\* the accessors compute their results from these fields alone, so the
\* later results are unchanged with them.
C24_Claim == [][obj.state = "ok" => obj' = obj]_vars

====
